---- MODULE Spec2Model ----
(***************************************************************************)
(* Model of AcpClient (src/src/settings.ts): the owner of the agent child  *)
(* process, of the JSON-RPC connection over its stdio, and of the memoized *)
(* initialize / newSession futures.                                        *)
(*                                                                         *)
(* JavaScript runs the client on one event loop.  Synchronous code is one  *)
(* atomic step.  Every `await` suspends the call; its continuation is a    *)
(* microtask.  Microtasks run in FIFO order before the event loop takes    *)
(* the next I/O event (a response line on stdout, a child process event,   *)
(* a timer), but the code that runs in other microtasks may call the       *)
(* client's API in between.  A continuation that only settles the promise  *)
(* of its own call reads and writes no field of the client: it is run in   *)
(* the step that settles the promise it awaited.                           *)
(***************************************************************************)
EXTENDS Integers, Sequences, FiniteSets

\* Bounds of the model.
MaxProcs == 2
MaxRpcs == 3
MaxCalls == 2
MaxPrompts == 1
MaxCancels == 1
MaxHandlers == 2
MaxEntries == 3
MaxNotes == 2
MaxPath == 6
MaxText == 4
MaxLine == 3
MaxRequests == 2
MaxPending == 3

\* JavaScript null, for the fields that hold a process, a connection, a
\* promise or a session id (all numbered from 1).
Null == 0

VARIABLES
    client,      \* the AcpClient fields that resetConnectionState clears
    procs,       \* every child process spawned so far, in spawn order
    rpcs,        \* the promises of the outbound RPCs that are still reachable
    calls,       \* the ensureSession() and sendPrompt() calls in flight
    microtasks,  \* the continuations ready to run, FIFO
    obs,         \* what the last step did that no field keeps (see NoObs)
    vaultBase,   \* whether the vault adapter has a base path (desktop)
    handlers,    \* sessionUpdateHandlers and permissionRequestHandlers
    callbacks,   \* whether onSessionUpdate / onRequestPermission were supplied
    deliveries,  \* the sessionUpdate() and requestPermission() calls, by message
    invoked,     \* the handler invocations so far, in order
    resolved,    \* a candidate path and what resolveVaultPath made of it
    sliced,      \* a text, a line, a limit and what sliceTextByLine made of them
    requests,    \* the readTextFile() and writeTextFile() calls in flight
    vault,       \* the vault: its base path and its files and folders
    hook,        \* the permission queue of the chat view (usePermissions)
    attach       \* the attachments of the composer (useAttachments)

\* The subscription registries and the deliveries of inbound messages.
fanout == <<handlers, callbacks, deliveries, invoked>>

\* The state of the file handlers the agent calls, of the consumer of the
\* permission requests and of the attachments of the composer.
callee == <<resolved, sliced, requests, vault, hook, attach>>

vars == <<client, procs, rpcs, calls, microtasks, obs, vaultBase, fanout, callee>>

\* The fields after construction.
NewClient ==
    [agentProcess |-> Null, connection |-> Null, initializationPromise |-> Null,
     sessionPromise |-> Null, sessionId |-> Null]

\* What spawn() can give: a running child, a child that could not be started
\* and will emit 'error' (with or without stdio streams on the handle).
SpawnOutcomes == {"running", "spawnfailed", "nostdio"}

\* A child process: its status (the spawn outcome, then "exited" or "errored"
\* once that event was handled, then "closed"), whether the grace timer of
\* its disconnect() is pending, and whether the client owned it when it
\* emitted 'exit'.
NewProcess(outcome) ==
    [status |-> outcome, timer |-> FALSE, diedOwned |-> FALSE]

\* What a step did besides changing the state: the process whose 'exit' or
\* 'error' event it handled, the signals it sent (stdin end and kill calls,
\* in order, each with its process), the session id that ensureSession()
\* returned to its caller, whether it is a call of disconnect(), and the
\* connection on which it sent a session/cancel notification.
NoObs ==
    [event |-> Null, signals |-> <<>>, returned |-> Null, disconnected |-> FALSE,
     cancelled |-> Null]

NewRpc(kind, conn) ==
    [kind |-> kind, conn |-> conn, state |-> "pending", waiters |-> <<>>]

\* A promise that nothing can reach any more: the garbage collector's.  Its
\* number is free for the next RPC.
Collected ==
    [kind |-> "none", conn |-> Null, state |-> "collected", waiters |-> <<>>]

RpcIds == 1..MaxRpcs

\* The number of the next RPC: the lowest free one (MaxRpcs + 1 when the
\* bound of the model is exhausted).
NextRpc(rs) ==
    CHOOSE r \in 1..(MaxRpcs + 1) :
        /\ r > MaxRpcs \/ rs[r] = Collected
        /\ \A q \in 1..(r - 1) : rs[q] # Collected

Issue(rs, kind, conn) ==
    [r \in RpcIds |-> IF r = NextRpc(rs) THEN NewRpc(kind, conn) ELSE rs[r]]

\* resetConnectionState without the guard against a stale process.
resetUnguarded(cl, p) == NewClient

\* resetConnectionState that forgets to clear the connection.
resetKeepsConnection(cl, p) ==
    IF p # Null /\ cl.agentProcess # Null /\ p # cl.agentProcess
    THEN cl
    ELSE [NewClient EXCEPT !.connection = cl.connection]

\* resetConnectionState that forgets to clear the two promises.
resetKeepsPromises(cl, p) ==
    IF p # Null /\ cl.agentProcess # Null /\ p # cl.agentProcess
    THEN cl
    ELSE [NewClient EXCEPT !.initializationPromise = cl.initializationPromise,
                           !.sessionPromise = cl.sessionPromise]

\* resetConnectionState(agentProcess?): p = Null is the call with no argument.
resetConnectionState(cl, p) ==
    IF p # Null /\ cl.agentProcess # Null /\ p # cl.agentProcess
    THEN cl
    ELSE [agentProcess |-> Null, connection |-> Null,
          initializationPromise |-> Null, sessionPromise |-> Null,
          sessionId |-> Null]

\* The synchronous body of initialize(): the memoized promise, or a spawn
\* (when there is no connection) followed by the initialize RPC.  fits tells
\* whether the bounds of the model allow the spawn and the RPC.
initializeBody(cl, ps, rs, outcome) ==
    IF cl.initializationPromise # Null
    THEN [client |-> cl, procs |-> ps, rpcs |-> rs,
          promise |-> cl.initializationPromise, threw |-> FALSE, fits |-> TRUE]
    ELSE LET spawned == cl.connection = Null
             p == Len(ps) + 1
             ps1 == IF spawned THEN Append(ps, NewProcess(outcome)) ELSE ps
             cl1 == IF spawned THEN [cl EXCEPT !.agentProcess = p] ELSE cl
         IN  IF spawned /\ outcome = "nostdio"
             THEN [client |-> cl1, procs |-> ps1, rpcs |-> rs,
                   promise |-> Null, threw |-> TRUE, fits |-> p <= MaxProcs]
             ELSE LET cl2 == IF spawned THEN [cl1 EXCEPT !.connection = p] ELSE cl1
                      r == NextRpc(rs)
                  IN  [client |-> [cl2 EXCEPT !.initializationPromise = r],
                       procs |-> ps1,
                       rpcs |-> Issue(rs, "initialize", cl2.connection),
                       promise |-> r, threw |-> FALSE,
                       fits |-> Len(ps1) <= MaxProcs /\ r <= MaxRpcs]

\* A rejection handler that tears the connection state down.
catchTearsDown(cl) == NewClient

\* The reaction initialize() attaches to the promise of the initialize RPC.
catchInitialize(cl) == [cl EXCEPT !.initializationPromise = Null]

\* disconnect() that only forgets the process handle and the promises.
disconnectKeepsSession(cl) ==
    [NewClient EXCEPT !.sessionId = cl.sessionId]

\* disconnect() that resets the fields only when it owns a process.
disconnectOnlyWithProcess(cl) ==
    IF cl.agentProcess = Null THEN cl ELSE NewClient

\* The fields after disconnect().
disconnectClient(cl) ==
    resetConnectionState([cl EXCEPT !.agentProcess = Null], Null)

\* What disconnect() sends to the owned process p: the end of stdin (when
\* the handle has a stdin stream) and then SIGTERM.
disconnectSignals(p, pr) ==
    (IF pr.status # "nostdio" THEN <<<<p, "end">>>> ELSE <<>>) \o <<<<p, "SIGTERM">>>>

\* The process the grace timer's callback kills: the one the client owns
\* when the timer fires (p is the process that was disconnected).
killTarget(cl, p) == cl.agentProcess

\* ---- the async calls -------------------------------------------------------

\* A call of ensureSession(), sendPrompt() or cancelPrompt() in flight, in
\* one of MaxCalls slots.  awaits is the promise it is suspended on, issued
\* the newSession RPC the call itself sent, sessionId the local of
\* sendPrompt and cancelPrompt.  deadAtStart
\* records the processes that had emitted 'exit' while the client owned them
\* when the call started.
Slots == 1..MaxCalls

Idle ==
    [op |-> "none", pc |-> "idle", awaits |-> Null, issued |-> Null,
     sessionId |-> Null, deadAtStart |-> {}]

InFlight(c) == calls[c].pc # "idle"

NewCall(op, r) ==
    [op |-> op, pc |-> "awaitInit", awaits |-> r, issued |-> Null,
     sessionId |-> Null,
     deadAtStart |-> {p \in 1..Len(procs) : procs[p].diedOwned}]

\* Whether the continuation of call after the promise it awaits settled as
\* state does nothing but settle the call: a rejected `await
\* this.initialize()` propagates, and sendPrompt returns the response of its
\* prompt RPC.
OnlySettles(call, state) ==
    \/ call.pc = "awaitInit" /\ state = "rejected"
    \/ call.pc = "awaitPrompt"

\* The promises the client's fields and the calls in cs refer to.
Refs(cl, cs) ==
    {cl.initializationPromise, cl.sessionPromise, cl.sessionId}
        \cup {cs[c].awaits : c \in Slots}
        \cup {cs[c].issued : c \in Slots}
        \cup {cs[c].sessionId : c \in Slots}

\* stdout of a process with this record can still deliver a response line.
StdoutOpen(pr) == pr.status \in {"running", "exited"}

\* The response of a process with this record will never come.
StdoutGone(pr) == pr.status \in {"errored", "closed"}

\* A call suspended on a pending promise of a connection whose stdout is
\* gone never resumes: nothing refers to it, and its slot is free again.
Resumable(cs, rs, ps) ==
    [c \in Slots |->
        IF /\ cs[c].awaits # Null
           /\ rs[cs[c].awaits].state = "pending"
           /\ StdoutGone(ps[rs[cs[c].awaits].conn])
        THEN Idle ELSE cs[c]]

\* The promises after a step.  A promise is kept while a field or a call
\* refers to it, and the promise of an initialize RPC while its response
\* can still arrive (its .catch reaction is waiting for it); the reactions
\* on it are those of the calls still suspended on it.
Reachable(rs, ps, cl, cs) ==
    [r \in RpcIds |->
        IF \/ r \in Refs(cl, cs)
           \/ /\ rs[r].kind = "initialize"
              /\ rs[r].state = "pending"
              /\ ~StdoutGone(ps[rs[r].conn])
        THEN [rs[r] EXCEPT !.waiters = SelectSeq(@, LAMBDA c : cs[c].awaits = r)]
        ELSE Collected]

\* `await promise r` by call c: a reaction on r while r is pending, a
\* microtask at once when r is already settled.
Await(c, r, rs, mt) ==
    IF rs[r].state = "pending"
    THEN [rpcs |-> [rs EXCEPT ![r].waiters = Append(@, c)], microtasks |-> mt]
    ELSE [rpcs |-> rs, microtasks |-> Append(mt, c)]

\* initialize() called by the user of the client.  The promise it returns
\* is the promise of the initialize RPC, memoized in initializationPromise;
\* the caller has no continuation inside the client.
initialize ==
    /\ \E outcome \in SpawnOutcomes :
        LET b == initializeBody(client, procs, rpcs, outcome)
        IN  /\ b.fits
            /\ client' = b.client
            /\ procs' = b.procs
            /\ rpcs' = Reachable(b.rpcs, b.procs, b.client, calls)
    /\ obs' = NoObs
    /\ UNCHANGED <<calls, microtasks, vaultBase, fanout, callee>>

\* ensureSession(), sendPrompt() or cancelPrompt() up to the first await:
\* all begin with `await this.initialize()`.  The call takes the first free slot.
Start(op) ==
    \E c \in Slots, outcome \in SpawnOutcomes :
        LET b == initializeBody(client, procs, rpcs, outcome)
        IN  /\ ~InFlight(c)
            /\ \A d \in 1..(c - 1) : InFlight(d)
            /\ b.fits
            /\ client' = b.client
            /\ procs' = b.procs
            /\ IF b.threw
               THEN /\ rpcs' = Reachable(b.rpcs, b.procs, b.client, calls)
                    /\ UNCHANGED <<calls, microtasks>>
               ELSE LET a == Await(c, b.promise, b.rpcs, microtasks)
                    IN  /\ calls' = [calls EXCEPT ![c] = NewCall(op, b.promise)]
                        /\ rpcs' = Reachable(a.rpcs, b.procs, b.client, calls')
                        /\ microtasks' = a.microtasks
            /\ obs' = NoObs
            /\ UNCHANGED <<vaultBase, fanout, callee>>

ensureSession == Start("ensureSession")

sendPrompt ==
    /\ Cardinality({c \in Slots : calls[c].op = "sendPrompt"}) < MaxPrompts
    /\ Start("sendPrompt")

cancelPrompt ==
    /\ Cardinality({c \in Slots : calls[c].op = "cancelPrompt"}) < MaxCancels
    /\ Start("cancelPrompt")

\* disconnect(): synchronous, callable at any point between microtasks.
\* With a process owned it sends the signals and sets the grace timer, whose
\* 'close' listener is on that process.
disconnect ==
    /\ client' = disconnectClient(client)
    /\ LET p == client.agentProcess
       IN  IF p # Null
           THEN /\ procs' = [procs EXCEPT ![p].timer = TRUE]
                /\ obs' = [NoObs EXCEPT !.signals = disconnectSignals(p, procs[p]),
                                        !.disconnected = TRUE]
           ELSE /\ procs' = procs
                /\ obs' = [NoObs EXCEPT !.disconnected = TRUE]
    /\ rpcs' = Reachable(rpcs, procs', client', calls)
    /\ UNCHANGED <<calls, microtasks, vaultBase, fanout, callee>>

\* ---- continuations ---------------------------------------------------------
\* Each gives the client, the RPCs, the microtask queue and the record of
\* call c after the continuation ran, and the session id it returned from
\* ensureSession(); mt is the queue without c.  fits tells whether the bound
\* of the model allows the RPC it issues.

\* ensureSession() returns sid: an ensureSession call is done, a sendPrompt
\* or cancelPrompt call resumes in a later microtask.
returnSession(c, sid, cl, rs, mt) ==
    IF calls[c].op = "ensureSession"
    THEN [client |-> cl, rpcs |-> rs, microtasks |-> mt, call |-> Idle,
          returned |-> sid, fits |-> TRUE]
    ELSE [client |-> cl, rpcs |-> rs, microtasks |-> Append(mt, c),
          call |-> [calls[c] EXCEPT !.pc = "gotSession", !.sessionId = sid,
                                    !.awaits = Null],
          returned |-> sid, fits |-> TRUE]

throwError(c, cl, rs, mt) ==
    [client |-> cl, rpcs |-> rs, microtasks |-> mt, call |-> Idle,
     returned |-> Null, fits |-> TRUE]

\* The continuation issues an RPC of this kind on the connection and awaits
\* its promise.
issueAndAwait(c, kind, pc, cl, rs, mt) ==
    LET r == NextRpc(rs)
    IN  IF r > MaxRpcs
        THEN [client |-> cl, rpcs |-> rs, microtasks |-> mt, call |-> calls[c],
              returned |-> Null, fits |-> FALSE]
        ELSE LET a == Await(c, r, Issue(rs, kind, cl.connection), mt)
             IN  [client |-> IF kind = "newSession"
                             THEN [cl EXCEPT !.sessionPromise = r] ELSE cl,
                  rpcs |-> a.rpcs, microtasks |-> a.microtasks,
                  call |-> [calls[c] EXCEPT
                               !.pc = pc, !.awaits = r,
                               !.issued = IF kind = "newSession" THEN r ELSE @],
                  returned |-> Null, fits |-> TRUE]

\* ensureSession() after `await this.initialize()` has succeeded.
ensureSessionBody(c, cl, rs, mt) ==
    IF cl.sessionId # Null THEN returnSession(c, cl.sessionId, cl, rs, mt)
    ELSE IF cl.connection = Null THEN throwError(c, cl, rs, mt)
    ELSE IF cl.sessionPromise = Null
    THEN IF ~vaultBase THEN throwError(c, cl, rs, mt)
         ELSE issueAndAwait(c, "newSession", "awaitSession", cl, rs, mt)
    ELSE LET a == Await(c, cl.sessionPromise, rs, mt)
         IN  [client |-> cl, rpcs |-> a.rpcs, microtasks |-> a.microtasks,
              call |-> [calls[c] EXCEPT !.pc = "awaitSession",
                                        !.awaits = cl.sessionPromise],
              returned |-> Null, fits |-> TRUE]

\* ensureSession() whose catch block rethrows without clearing the promise.
sessionSettledKeepsPromise(c, cl, rs, mt) ==
    LET r == calls[c].awaits
    IN  IF rs[r].state = "fulfilled"
        THEN returnSession(c, r, [cl EXCEPT !.sessionId = r], rs, mt)
        ELSE throwError(c, cl, rs, mt)

\* ensureSession() after `await this.sessionPromise`: the try block stores
\* the session id of the response (the id of a session is the number of the
\* newSession RPC that created it), the catch block clears the promise.
sessionSettled(c, cl, rs, mt) ==
    LET r == calls[c].awaits
    IN  IF rs[r].state = "fulfilled"
        THEN returnSession(c, r, [cl EXCEPT !.sessionId = r], rs, mt)
        ELSE throwError(c, [cl EXCEPT !.sessionPromise = Null], rs, mt)

\* sendPrompt() after `await this.ensureSession()`: this.connection!.prompt.
promptBody(c, cl, rs, mt) ==
    IF cl.connection = Null
    THEN throwError(c, cl, rs, mt)
    ELSE issueAndAwait(c, "prompt", "awaitPrompt", cl, rs, mt)

\* cancelPrompt() that also rejects, locally, the prompts in flight on the
\* connection.
cancelAborts(c, cl, rs, mt) ==
    IF cl.connection = Null
    THEN throwError(c, cl, rs, mt)
    ELSE [client |-> cl,
          rpcs |-> [r \in RpcIds |->
                      IF rs[r].kind = "prompt" /\ rs[r].state = "pending"
                      THEN [rs[r] EXCEPT !.state = "rejected"] ELSE rs[r]],
          microtasks |-> mt, call |-> Idle, returned |-> Null, fits |-> TRUE]

\* cancelPrompt() after `await this.ensureSession()`: this.connection!.cancel,
\* a notification, which is written to the connection and has no response.
cancelBody(c, cl, rs, mt) ==
    IF cl.connection = Null
    THEN throwError(c, cl, rs, mt)
    ELSE [client |-> cl, rpcs |-> rs, microtasks |-> mt, call |-> Idle,
          returned |-> Null, fits |-> TRUE]

\* The connection on which the continuation of call c sends session/cancel.
cancelSent(c, cl) ==
    IF calls[c].op = "cancelPrompt" /\ calls[c].pc = "gotSession"
    THEN cl.connection ELSE Null

Continuation(c, cl, rs, mt) ==
    IF calls[c].pc = "awaitInit" THEN ensureSessionBody(c, cl, rs, mt)
    ELSE IF calls[c].pc = "awaitSession" THEN sessionSettled(c, cl, rs, mt)
    ELSE IF calls[c].op = "cancelPrompt" THEN cancelBody(c, cl, rs, mt)
    ELSE promptBody(c, cl, rs, mt)

\* The event loop runs the oldest microtask.
RunMicrotask ==
    /\ microtasks # <<>>
    /\ LET c == Head(microtasks)
           n == Continuation(c, client, rpcs, Tail(microtasks))
       IN  /\ n.fits
           /\ client' = n.client
           /\ microtasks' = n.microtasks
           /\ calls' = [calls EXCEPT ![c] = n.call]
           /\ rpcs' = Reachable(n.rpcs, procs, client', calls')
           /\ obs' = [NoObs EXCEPT !.returned = n.returned,
                                   !.cancelled = cancelSent(c, client)]
    /\ UNCHANGED <<procs, vaultBase, fanout, callee>>

\* ---- I/O events: taken only when no microtask is left -----------------------

\* The response to RPC r arrives: the promise settles and its reactions
\* become microtasks in registration order.  The .catch reaction that
\* initialize() attached to the promise is its first reaction.
Settle(r, state) ==
    /\ microtasks = <<>>
    /\ rpcs[r].state = "pending"
    /\ StdoutOpen(procs[rpcs[r].conn])
    /\ microtasks' = SelectSeq(rpcs[r].waiters,
                               LAMBDA c : ~OnlySettles(calls[c], state))
    /\ calls' = [c \in Slots |->
                    IF calls[c].awaits = r /\ OnlySettles(calls[c], state)
                    THEN Idle
                    ELSE calls[c]]
    /\ client' = IF rpcs[r].kind = "initialize" /\ state = "rejected"
                 THEN catchInitialize(client) ELSE client
    /\ rpcs' = Reachable([rpcs EXCEPT ![r].state = state, ![r].waiters = <<>>],
                          procs, client', calls')
    /\ obs' = NoObs
    /\ UNCHANGED <<procs, vaultBase, fanout, callee>>

Resolve == \E r \in RpcIds : Settle(r, "fulfilled")

Reject == \E r \in RpcIds : Settle(r, "rejected")

\* The 'exit' event of p; its stdio may still be open.
Exit ==
    \E p \in 1..Len(procs) :
        /\ microtasks = <<>>
        /\ procs[p].status = "running"
        /\ procs' = [procs EXCEPT ![p].status = "exited",
                                  ![p].diedOwned = (client.agentProcess = p)]
        /\ client' = resetConnectionState(client, p)
        /\ obs' = [NoObs EXCEPT !.event = p]
        /\ rpcs' = Reachable(rpcs, procs', client', calls)
        /\ UNCHANGED <<calls, microtasks, vaultBase, fanout, callee>>

\* The 'error' event of a process that could not be spawned (emitted on
\* the next tick, before the microtasks or after them).  Such a process
\* answers no RPC.
Error ==
    \E p \in 1..Len(procs) :
        /\ procs[p].status \in {"spawnfailed", "nostdio"}
        /\ procs' = [procs EXCEPT ![p].status = "errored"]
        /\ client' = resetConnectionState(client, p)
        /\ obs' = [NoObs EXCEPT !.event = p]
        /\ calls' = Resumable(calls, rpcs, procs')
        /\ microtasks' = microtasks
        /\ rpcs' = Reachable(rpcs, procs', client', calls')
        /\ UNCHANGED <<vaultBase, fanout, callee>>

\* The 'close' event of p (after 'exit' or 'error', stdio closed): the
\* listener disconnect() registered clears the grace timer.
Close ==
    \E p \in 1..Len(procs) :
        /\ microtasks = <<>>
        /\ procs[p].status \in {"exited", "errored"}
        /\ procs' = [procs EXCEPT ![p].status = "closed", ![p].timer = FALSE]
        /\ obs' = NoObs
        /\ calls' = Resumable(calls, rpcs, procs')
        /\ rpcs' = Reachable(rpcs, procs', client, calls')
        /\ UNCHANGED <<client, microtasks, vaultBase, fanout, callee>>

\* The grace timer that disconnect() of process p set fires after 5 s.
TimerFires ==
    \E p \in 1..Len(procs) :
        /\ microtasks = <<>>
        /\ procs[p].timer
        /\ procs' = [procs EXCEPT ![p].timer = FALSE]
        /\ LET t == killTarget(client, p)
           IN  obs' = [NoObs EXCEPT
                          !.signals = IF t # Null THEN <<<<t, "SIGKILL">>>> ELSE <<>>]
        /\ UNCHANGED <<client, rpcs, calls, microtasks, vaultBase, fanout, callee>>

\* ---- event fan-out --------------------------------------------------------

\* The two registries: sessionUpdateHandlers and permissionRequestHandlers.
Kinds == {"update", "permission"}

\* The subscriber functions, and the callback supplied to the constructor.
Handlers == 1..MaxHandlers
Callback == MaxHandlers + 1

\* The inbound messages, numbered in the order the connection receives them.
Notes == 1..MaxNotes

\* A JavaScript Set keeps its entries in insertion order; delete() empties
\* the entry in place, and a live iterator walks the entries by position.
Removed == 0

Members(reg) == {reg[i] : i \in 1..Len(reg)} \ {Removed}

\* Set.prototype.add
add(reg, h) == IF h \in Members(reg) THEN reg ELSE Append(reg, h)

\* Set.prototype.delete
delete(reg, h) == [i \in 1..Len(reg) |-> IF reg[i] = h THEN Removed ELSE reg[i]]

\* The position of the first entry at or after i that is not removed
\* (Len(reg) + 1 when the iterator is exhausted).
nextEntry(reg, i) ==
    CHOOSE j \in i..(Len(reg) + 1) :
        /\ j > Len(reg) \/ reg[j] # Removed
        /\ \A q \in i..(j - 1) : reg[q] = Removed

\* A delivery: the registry it iterates, where it is suspended (pc), the
\* position of its iterator and the handler it awaits, the permission
\* answer it returned (the handler that gave it), whether it caught the
\* error of a handler (and called console.warn), and the subscribers that
\* were registered when it started.
NoDelivery ==
    [kind |-> "none", pc |-> "idle", idx |-> 0, cur |-> Removed,
     answer |-> Removed, warned |-> FALSE, registered |-> {}]

Invocation(who, n, i) == [who |-> who, note |-> n, entry |-> i]

\* afterLoop in which requestPermission() fails when no handler answered.
afterLoopRejects(d, n, log) ==
    IF d.kind = "update" /\ callbacks["update"]
    THEN [delivery |-> [d EXCEPT !.pc = "callback", !.cur = Callback],
          invoked |-> Append(log, Invocation(Callback, n, 0))]
    ELSE [delivery |-> [d EXCEPT !.pc = IF d.kind = "update" THEN "done"
                                        ELSE "failed",
                                 !.cur = Removed],
          invoked |-> log]

\* The end of sessionUpdate(): the constructor's callback, awaited, after
\* the loop; requestPermission() falls back to the outcome "cancelled".
afterLoop(d, n, log) ==
    IF d.kind = "update" /\ callbacks["update"]
    THEN [delivery |-> [d EXCEPT !.pc = "callback", !.cur = Callback],
          invoked |-> Append(log, Invocation(Callback, n, 0))]
    ELSE [delivery |-> [d EXCEPT !.pc = IF d.kind = "update" THEN "done"
                                        ELSE "cancelled",
                                 !.cur = Removed],
          invoked |-> log]

\* A for...of loop over the registry whose iterator stops at the first throw.
loopStopsAtThrow(d, n, i, reg, log, threw) ==
    LET j == nextEntry(reg, i)
    IN  IF threw
        THEN [delivery |-> [d EXCEPT !.pc = "failed", !.cur = Removed],
              invoked |-> log]
        ELSE IF j <= Len(reg)
        THEN [delivery |-> [d EXCEPT !.pc = "handler", !.idx = j, !.cur = reg[j]],
              invoked |-> Append(log, Invocation(reg[j], n, j))]
        ELSE afterLoop([d EXCEPT !.idx = j], n, log)

\* `for (const handler of registry) { try { await handler(params) } catch
\* {} }` from position i: the next handler is invoked and awaited, whether
\* or not the previous one threw; after the last one the loop is left.
loop(d, n, i, reg, log, threw) ==
    LET j == nextEntry(reg, i)
        w == d.warned \/ threw
    IN  IF j <= Len(reg)
        THEN [delivery |-> [d EXCEPT !.pc = "handler", !.idx = j, !.cur = reg[j],
                                     !.warned = w],
              invoked |-> Append(log, Invocation(reg[j], n, j))]
        ELSE afterLoop([d EXCEPT !.idx = j, !.warned = w], n, log)

\* The connection hands its messages to the client in the order received,
\* without waiting for the delivery of the previous one.
Received(n) ==
    /\ deliveries[n].pc = "idle"
    /\ \A m \in 1..(n - 1) : deliveries[m].pc # "idle"

subscribeSessionUpdates ==
    \E h \in Handlers :
        /\ Len(add(handlers["update"], h)) <= MaxEntries
        /\ handlers' = [handlers EXCEPT !["update"] = add(@, h)]
        /\ UNCHANGED <<client, procs, rpcs, calls, microtasks, obs, vaultBase, callee,
                       callbacks, deliveries, invoked>>

subscribePermissionRequests ==
    \E h \in Handlers :
        /\ Len(add(handlers["permission"], h)) <= MaxEntries
        /\ handlers' = [handlers EXCEPT !["permission"] = add(@, h)]
        /\ UNCHANGED <<client, procs, rpcs, calls, microtasks, obs, vaultBase, callee,
                       callbacks, deliveries, invoked>>

\* The function a subscribe call on registry k returned, called by anyone
\* at any time.
unsubscribe(k) ==
    \E h \in Handlers :
        /\ h \in Members(handlers[k])
        /\ handlers' = [handlers EXCEPT ![k] = delete(@, h)]
        /\ UNCHANGED <<client, procs, rpcs, calls, microtasks, obs, vaultBase, callee,
                       callbacks, deliveries, invoked>>

unsubscribeSessionUpdates == unsubscribe("update")

unsubscribePermissionRequests == unsubscribe("permission")

\* sessionUpdate(params) up to its first await.
sessionUpdate ==
    \E n \in Notes :
        /\ Received(n)
        /\ LET d == [NoDelivery EXCEPT !.kind = "update",
                                       !.registered = Members(handlers["update"])]
               l == loop(d, n, 1, handlers["update"], invoked, FALSE)
           IN  /\ deliveries' = [deliveries EXCEPT ![n] = l.delivery]
               /\ invoked' = l.invoked
        /\ UNCHANGED <<client, procs, rpcs, calls, microtasks, obs, vaultBase, callee,
                       handlers, callbacks>>

\* requestPermission(params) up to its first await, or to its return when
\* it returns the promise of the constructor's callback.
requestPermission ==
    \E n \in Notes :
        /\ Received(n)
        /\ LET d == [NoDelivery EXCEPT !.kind = "permission",
                                       !.registered = Members(handlers["permission"])]
               l == IF callbacks["permission"]
                    THEN [delivery |-> [d EXCEPT !.pc = "callback", !.cur = Callback],
                          invoked |-> Append(invoked, Invocation(Callback, n, 0))]
                    ELSE loop(d, n, 1, handlers["permission"], invoked, FALSE)
           IN  /\ deliveries' = [deliveries EXCEPT ![n] = l.delivery]
               /\ invoked' = l.invoked
        /\ UNCHANGED <<client, procs, rpcs, calls, microtasks, obs, vaultBase, callee,
                       handlers, callbacks>>

\* The promise of the awaited handler settles (a handler that throws is one
\* whose promise is rejected) and the delivery resumes: requestPermission
\* returns the response of the handler, otherwise the loop goes on.
HandlerSettles ==
    \E n \in Notes, threw \in BOOLEAN :
        LET d == deliveries[n]
            l == IF d.kind = "permission" /\ ~threw
                 THEN [delivery |-> [d EXCEPT !.pc = "done", !.answer = d.cur,
                                              !.cur = Removed],
                       invoked |-> invoked]
                 ELSE loop(d, n, d.idx + 1, handlers[d.kind], invoked, threw)
        IN  /\ d.pc = "handler"
            /\ deliveries' = [deliveries EXCEPT ![n] = l.delivery]
            /\ invoked' = l.invoked
            /\ UNCHANGED <<client, procs, rpcs, calls, microtasks, obs, vaultBase, callee,
                           handlers, callbacks>>

\* The promise of the constructor's callback settles: the delivery ends as
\* the callback did.
CallbackSettles ==
    \E n \in Notes, threw \in BOOLEAN :
        /\ deliveries[n].pc = "callback"
        /\ deliveries' = [deliveries EXCEPT
                             ![n].pc = IF threw THEN "failed" ELSE "done",
                             ![n].cur = Removed,
                             ![n].answer = IF deliveries[n].kind = "permission" /\ ~threw
                                           THEN Callback ELSE Removed]
        /\ UNCHANGED <<client, procs, rpcs, calls, microtasks, obs, vaultBase, callee,
                       handlers, callbacks, invoked>>

\* ---- paths ----------------------------------------------------------------

\* A string is the sequence of its characters.  The characters that matter
\* to the path functions: the two slashes, the dot, the colon of a drive,
\* and a letter.
Chars == {"/", "\\", ".", ":", "a"}
Letters == {"a"}

RECURSIVE StringsUpTo(_)
StringsUpTo(n) ==
    IF n = 0 THEN {<<>>}
    ELSE LET shorter == StringsUpTo(n - 1)
         IN  shorter \cup {Append(v, ch) : v \in {w \in shorter : Len(w) = n - 1},
                                           ch \in Chars}

\* The candidate paths a request may carry.
Paths == StringsUpTo(MaxPath)

\* What adapter.getBasePath() may return; NoBase stands for the null of an
\* adapter that is not a FileSystemAdapter (`if (basePath)` takes null and
\* the empty string alike).
NoBase == <<>>
Bases == {NoBase, <<"/", "a">>, <<"/", "a", "/">>, <<"a", ":", "\\", "a">>}

\* The base path of a desktop vault.
DesktopBase == <<"/", "a">>

\* The paths the agent asks the file handlers for: relative ones, one, two
\* and three segments deep; the base path, with and without a slash at its
\* end; the empty path; an absolute path below the base path; a traversal;
\* an absolute path outside the vault.
FilePaths ==
    {<<"a">>, <<"a", "/", "a">>, <<"a", "/", "a", "/", "a">>,
     <<"/", "a">>, <<"/", "a", "/">>, <<>>,
     <<"/", "a", "/", "a">>, <<".", ".", "/", "a">>, <<"/">>}

\* String.prototype.startsWith
startsWith(v, p) == Len(p) <= Len(v) /\ SubSeq(v, 1, Len(p)) = p

\* String.prototype.slice(n)
sliceFrom(v, n) == SubSeq(v, n + 1, Len(v))

\* value.replace(/\\/g, "/")
normalizeSlashes(value) ==
    [i \in 1..Len(value) |-> IF value[i] = "\\" THEN "/" ELSE value[i]]

\* value.startsWith("/") || /^[A-Za-z]:\//.test(value)
isAbsolutePath(value) ==
    \/ startsWith(value, <<"/">>)
    \/ /\ Len(value) >= 3
       /\ value[1] \in Letters
       /\ value[2] = ":"
       /\ value[3] = "/"

\* The number of "/" at the start of v, and at its end.
leadingSlashes(v) ==
    CHOOSE k \in 0..Len(v) :
        /\ \A i \in 1..k : v[i] = "/"
        /\ k = Len(v) \/ v[k + 1] # "/"

trailingSlashes(v) ==
    CHOOSE k \in 0..Len(v) :
        /\ \A i \in (Len(v) - k + 1)..Len(v) : v[i] = "/"
        /\ k = Len(v) \/ v[Len(v) - k] # "/"

\* v.replace(/^\/+/, "") and v.replace(/\/+$/, "")
stripLeading(v) == SubSeq(v, leadingSlashes(v) + 1, Len(v))
stripTrailing(v) == SubSeq(v, 1, Len(v) - trailingSlashes(v))

\* The characters of v at the positions for which keep holds, in order.
RECURSIVE filter(_, _, _)
filter(v, keep, i) ==
    IF i > Len(v) THEN <<>>
    ELSE (IF i \in keep THEN <<v[i]>> ELSE <<>>) \o filter(v, keep, i + 1)

\* normalizePath of the obsidian module: every run of slashes of either
\* kind becomes one "/", the slashes at both ends are dropped, and the
\* empty result becomes "/".
normalizePath(path) ==
    LET v == normalizeSlashes(path)
        single == filter(v, {i \in 1..Len(v) : ~(i > 1 /\ v[i] = "/" /\ v[i - 1] = "/")}, 1)
        inner == stripTrailing(stripLeading(single))
    IN  IF inner = <<>> THEN <<"/">> ELSE inner

\* String.prototype.split("/") and Array.prototype.join("/")
RECURSIVE split(_)
split(v) ==
    IF \A i \in 1..Len(v) : v[i] # "/" THEN <<v>>
    ELSE LET i == CHOOSE j \in 1..Len(v) :
                      v[j] = "/" /\ \A q \in 1..(j - 1) : v[q] # "/"
         IN  <<SubSeq(v, 1, i - 1)>> \o split(SubSeq(v, i + 1, Len(v)))

RECURSIVE join(_)
join(parts) ==
    IF parts = <<>> THEN <<>>
    ELSE IF Len(parts) = 1 THEN parts[1]
    ELSE parts[1] \o <<"/">> \o join(Tail(parts))

includes(parts, part) == \E i \in 1..Len(parts) : parts[i] = part

\* What a handler, or a function it calls, comes to: a returned value or a
\* thrown acp.RequestError.
Returns(value) == [error |-> "none", value |-> value, message |-> ""]
Throws(error, message) == [error |-> error, value |-> <<>>, message |-> message]
NotRun == [error |-> "pending", value |-> <<>>, message |-> ""]

DotDot == <<".", ".">>

\* ensureSafeRelative without the check of the segments after the first.
ensureSafeFirstSegment(path) ==
    IF split(path)[1] = DotDot
    THEN Throws("invalidParams", "Path traversal is not allowed")
    ELSE Returns(path)

ensureSafeRelative(path) ==
    IF includes(split(path), DotDot)
    THEN Throws("invalidParams", "Path traversal is not allowed")
    ELSE Returns(path)

resolveVaultPath(path, basePath) ==
    LET normalizedPath == normalizeSlashes(path)
        normalizedBase == stripTrailing(normalizeSlashes(basePath))
    IN  IF basePath # NoBase
        THEN IF normalizedPath = normalizedBase
             THEN Returns(<<>>)
             ELSE IF startsWith(normalizedPath, normalizedBase \o <<"/">>)
             THEN ensureSafeRelative(
                      normalizePath(sliceFrom(normalizedPath, Len(normalizedBase) + 1)))
             ELSE IF ~isAbsolutePath(normalizedPath)
             THEN ensureSafeRelative(normalizePath(normalizedPath))
             ELSE Throws("invalidParams", "Path is outside the vault")
        ELSE ensureSafeRelative(normalizePath(stripLeading(normalizedPath)))

\* A call of resolveVaultPath on the candidate path.
resolve ==
    /\ resolved.out = NotRun
    /\ resolved' = [resolved EXCEPT !.out = resolveVaultPath(resolved.path, vault.base)]
    /\ UNCHANGED <<client, procs, rpcs, calls, microtasks, obs, vaultBase, fanout,
                   sliced, requests, vault, hook, attach>>

\* ---- lines ----------------------------------------------------------------

\* The characters of a file's text: two letters, carriage return, line feed.
TextChars == {"a", "b", "\r", "\n"}

RECURSIVE TextsUpTo(_)
TextsUpTo(n) ==
    IF n = 0 THEN {<<>>}
    ELSE LET shorter == TextsUpTo(n - 1)
         IN  shorter \cup {Append(v, ch) : v \in {w \in shorter : Len(w) = n - 1},
                                           ch \in TextChars}

Texts == TextsUpTo(MaxText)

\* An optional number (params.line, params.limit): the empty set when it is
\* null or undefined, otherwise the set of the number.
Absent == {}
OptionalNumbers == {Absent} \cup {{k} : k \in 0..MaxLine}
valueOf(optional) == CHOOSE k \in optional : TRUE

\* content.split(/\r?\n/): the text between the line breaks, a line break
\* being a line feed with the carriage return before it, if there is one.
RECURSIVE splitLines(_)
splitLines(content) ==
    IF \A i \in 1..Len(content) : content[i] # "\n" THEN <<content>>
    ELSE LET i == CHOOSE j \in 1..Len(content) :
                      content[j] = "\n" /\ \A q \in 1..(j - 1) : content[q] # "\n"
             last == IF i > 1 /\ content[i - 1] = "\r" THEN i - 2 ELSE i - 1
         IN  <<SubSeq(content, 1, last)>>
                 \o splitLines(SubSeq(content, i + 1, Len(content)))

\* lines.join("\n")
RECURSIVE joinLines(_)
joinLines(lines) ==
    IF lines = <<>> THEN <<>>
    ELSE IF Len(lines) = 1 THEN lines[1]
    ELSE lines[1] \o <<"\n">> \o joinLines(Tail(lines))

\* Array.prototype.slice(start, end) for 0 <= start
arraySlice(array, start, end) ==
    SubSeq(array, start + 1, IF end < Len(array) THEN end ELSE Len(array))

\* sliceTextByLine with the line taken for the index of the first line.
sliceFromIndex(content, line, limit) ==
    IF line # Absent /\ valueOf(line) < 1
    THEN Throws("invalidParams", "Line must be a positive integer")
    ELSE IF limit # Absent /\ valueOf(limit) < 1
    THEN Throws("invalidParams", "Limit must be a positive integer")
    ELSE IF line = Absent /\ limit = Absent
    THEN Returns(content)
    ELSE LET lines == splitLines(content)
             start == IF line = Absent THEN 1 ELSE valueOf(line)
             end == IF limit = Absent THEN Len(lines) ELSE start + valueOf(limit)
         IN  IF start >= Len(lines) THEN Returns(<<>>)
             ELSE Returns(joinLines(arraySlice(lines, start, end)))

sliceTextByLine(content, line, limit) ==
    IF line # Absent /\ valueOf(line) < 1
    THEN Throws("invalidParams", "Line must be a positive integer")
    ELSE IF limit # Absent /\ valueOf(limit) < 1
    THEN Throws("invalidParams", "Limit must be a positive integer")
    ELSE IF line = Absent /\ limit = Absent
    THEN Returns(content)
    ELSE LET lines == splitLines(content)
             start == (IF line = Absent THEN 1 ELSE valueOf(line)) - 1
             end == IF limit = Absent THEN Len(lines) ELSE start + valueOf(limit)
         IN  IF start >= Len(lines) THEN Returns(<<>>)
             ELSE Returns(joinLines(arraySlice(lines, start, end)))

\* A call of sliceTextByLine on the text read from a file.
slice ==
    /\ sliced.out = NotRun
    /\ sliced' = [sliced EXCEPT
                     !.out = sliceTextByLine(sliced.content, sliced.line, sliced.limit)]
    /\ UNCHANGED <<client, procs, rpcs, calls, microtasks, obs, vaultBase, fanout,
                   resolved, requests, vault, hook, attach>>

\* ---- the vault and the file handlers -----------------------------------------

\* The contents a file may hold, and the texts written to it.
Contents == {<<"a">>, <<"a", "\n", "b">>}

\* The vault is the set of its files and folders below the root, each with
\* its vault-relative path.  The root is a folder whose path is "/".
File(path, content) == [path |-> path, kind |-> "file", content |-> content]
Folder(path) == [path |-> path, kind |-> "folder", content |-> <<>>]
Root == Folder(<<"/">>)
NoEntry == [path |-> <<>>, kind |-> "none", content |-> <<>>]

\* vault.getAbstractFileByPath(path): the file or folder with that path, or
\* null.  Whether the empty path also names the root is left open.
getAbstractFileByPath(v, path) ==
    IF path = Root.path \/ (path = <<>> /\ v.emptyIsRoot) THEN Root
    ELSE IF \E e \in v.entries : e.path = path
    THEN CHOOSE e \in v.entries : e.path = path
    ELSE NoEntry

\* parts.slice(0, -1).join("/") of ensureParentFolder, and the folder paths
\* above a path.
folderOf(path) ==
    LET parts == split(path) IN join(SubSeq(parts, 1, Len(parts) - 1))

ancestors(path) ==
    LET parts == split(path)
    IN  {join(SubSeq(parts, 1, k)) : k \in 1..(Len(parts) - 1)} \ {<<>>}

\* vault.createFolder(path): fails when something has that path or when a
\* folder above it is a file; otherwise makes the folder and the missing
\* folders above it.
createFolder(v, path) ==
    IF \/ getAbstractFileByPath(v, path).kind # "none"
       \/ path = <<>>
       \/ \E a \in ancestors(path) : getAbstractFileByPath(v, a).kind = "file"
    THEN [threw |-> TRUE, vault |-> v]
    ELSE [threw |-> FALSE,
          vault |-> [v EXCEPT !.entries =
                        @ \cup {Folder(a) : a \in {b \in ancestors(path) \cup {path} :
                                    getAbstractFileByPath(v, b).kind = "none"}}]]

\* vault.create(path, content): fails when something has that path or when
\* the folder of the path does not exist.
create(v, path, content) ==
    IF \/ getAbstractFileByPath(v, path).kind # "none"
       \/ \E a \in ancestors(path) : getAbstractFileByPath(v, a).kind # "folder"
    THEN [threw |-> TRUE, vault |-> v]
    ELSE [threw |-> FALSE,
          vault |-> [v EXCEPT !.entries = @ \cup {File(path, content)}]]

\* vault.modify that writes a second file next to the old one.
modifyKeepsOld(v, file, content) ==
    [threw |-> FALSE,
     vault |-> [v EXCEPT !.entries = @ \cup {File(file.path, content)}]]

\* vault.modify(file, content)
modify(v, file, content) ==
    [threw |-> FALSE,
     vault |-> [v EXCEPT !.entries =
                   {e \in @ : e.path # file.path} \cup {File(file.path, content)}]]

\* ensureParentFolder(path) up to its await: what it awaits ("return" when
\* it returns at once or after its checks), or what it throws.
ensureParentFolder(v, path) ==
    LET parts == split(path)
        folderPath == folderOf(path)
        existing == getAbstractFileByPath(v, folderPath)
    IN  IF Len(parts) <= 1 THEN Returns("return")
        ELSE IF existing.kind = "none" THEN Returns("createFolder")
        ELSE IF existing.kind # "folder"
        THEN Throws("invalidParams", "Parent path is not a folder")
        ELSE Returns("return")

\* The lines a read asks for: all of them, the second one, and a line 0.
Windows ==
    {[line |-> Absent, limit |-> Absent], [line |-> {2}, limit |-> {1}],
     [line |-> {0}, limit |-> Absent]}

\* A call of readTextFile or writeTextFile: its parameters, where it is
\* suspended (pc), the vault operation it awaits (op), the vault path it
\* resolved, what it has made in the vault, what it came to, and its rank
\* among the successful writes.
Requests == 1..MaxRequests

NoRequest ==
    [method |-> "none", path |-> <<>>, content |-> <<>>, line |-> Absent,
     limit |-> Absent, pc |-> "idle", op |-> "none", vaultPath |-> <<>>,
     made |-> {}, out |-> NotRun, rank |-> 0]

\* The call is over, with result or error out.
finish(q, out, rank) == [q EXCEPT !.pc = "done", !.op = "none", !.out = out, !.rank = rank]

\* The successful writes so far.
written(rs) == Cardinality({r \in Requests : rs[r].rank > 0})

\* writeTextFile, from the return of ensureParentFolder to its next await.
afterParentFolder(q, v) ==
    LET existing == getAbstractFileByPath(v, q.vaultPath)
    IN  IF existing.kind = "file" THEN [q EXCEPT !.pc = "file", !.op = "modify"]
        ELSE IF existing.kind # "none"
        THEN finish(q, Throws("invalidParams", "Path points to a non-file entry"), 0)
        ELSE [q EXCEPT !.pc = "file", !.op = "create"]

\* writeTextFile(params) up to its first await.
writeTextFile ==
    \E r \in Requests, path \in FilePaths, content \in Contents :
        LET q == [NoRequest EXCEPT !.method = "write", !.path = path,
                                   !.content = content]
            vaultPath == resolveVaultPath(path, vault.base)
            parent == ensureParentFolder(vault, vaultPath.value)
        IN  /\ requests[r] = NoRequest
            /\ \A s \in 1..(r - 1) : requests[s] # NoRequest
            /\ requests' = [requests EXCEPT ![r] =
                   IF vaultPath.error # "none" THEN finish(q, vaultPath, 0)
                   ELSE IF vaultPath.value = <<>>
                   THEN finish(q, Throws("invalidParams", "Path points to vault root"), 0)
                   ELSE IF parent.error # "none"
                   THEN finish([q EXCEPT !.vaultPath = vaultPath.value], parent, 0)
                   ELSE [q EXCEPT !.vaultPath = vaultPath.value, !.pc = "parent",
                                  !.op = parent.value]]
            /\ UNCHANGED <<client, procs, rpcs, calls, microtasks, obs, vaultBase,
                           fanout, resolved, sliced, vault, hook, attach>>

\* ensureParentFolder is over: the folder it asked for has been made, or
\* could not be; writeTextFile goes on to its file.
parentEnsured ==
    \E r \in Requests :
        LET q == requests[r]
            made == IF q.op = "createFolder"
                    THEN createFolder(vault, folderOf(q.vaultPath))
                    ELSE [threw |-> FALSE, vault |-> vault]
        IN  /\ q.pc = "parent"
            /\ vault' = made.vault
            /\ requests' = [requests EXCEPT ![r] =
                   IF made.threw THEN finish(q, Throws("error", "createFolder failed"), 0)
                   ELSE afterParentFolder(
                            [q EXCEPT !.made = IF q.op = "createFolder"
                                               THEN {"folder"} ELSE {}],
                            made.vault)]
            /\ UNCHANGED <<client, procs, rpcs, calls, microtasks, obs, vaultBase,
                           fanout, resolved, sliced, hook, attach>>

\* vault.modify or vault.create is over, and writeTextFile with it.
fileWritten ==
    \E r \in Requests :
        LET q == requests[r]
            wrote == IF q.op = "modify"
                     THEN modify(vault, getAbstractFileByPath(vault, q.vaultPath), q.content)
                     ELSE create(vault, q.vaultPath, q.content)
        IN  /\ q.pc = "file"
            /\ vault' = wrote.vault
            /\ requests' = [requests EXCEPT ![r] =
                   IF wrote.threw THEN finish(q, Throws("error", "create failed"), 0)
                   ELSE finish([q EXCEPT !.made = IF q.op = "create"
                                                  THEN @ \cup {"file"} ELSE @],
                               Returns(<<>>), written(requests) + 1)]
            /\ UNCHANGED <<client, procs, rpcs, calls, microtasks, obs, vaultBase,
                           fanout, resolved, sliced, hook, attach>>

\* readTextFile(params) up to its await of vault.read.
readTextFile ==
    \E r \in Requests, path \in FilePaths, window \in Windows :
        LET q == [NoRequest EXCEPT !.method = "read", !.path = path,
                                   !.line = window.line, !.limit = window.limit]
            vaultPath == resolveVaultPath(path, vault.base)
            file == getAbstractFileByPath(vault, vaultPath.value)
        IN  /\ requests[r] = NoRequest
            /\ \A s \in 1..(r - 1) : requests[s] # NoRequest
            /\ requests' = [requests EXCEPT ![r] =
                   IF vaultPath.error # "none" THEN finish(q, vaultPath, 0)
                   ELSE IF vaultPath.value = <<>>
                   THEN finish(q, Throws("invalidParams", "Path points to vault root"), 0)
                   ELSE IF file.kind # "file"
                   THEN finish([q EXCEPT !.vaultPath = vaultPath.value],
                               Throws("resourceNotFound", ""), 0)
                   ELSE [q EXCEPT !.vaultPath = vaultPath.value, !.pc = "read",
                                  !.op = "read"]]
            /\ UNCHANGED <<client, procs, rpcs, calls, microtasks, obs, vaultBase,
                           fanout, resolved, sliced, vault, hook, attach>>

\* vault.read is over: readTextFile returns the lines asked for.
fileRead ==
    \E r \in Requests :
        LET q == requests[r]
            file == getAbstractFileByPath(vault, q.vaultPath)
        IN  /\ q.pc = "read"
            /\ requests' = [requests EXCEPT ![r] =
                   finish(q, sliceTextByLine(file.content, q.line, q.limit), 0)]
            /\ UNCHANGED <<client, procs, rpcs, calls, microtasks, obs, vaultBase,
                           fanout, resolved, sliced, vault, hook, attach>>

\* ---- the permission queue of the chat view -----------------------------------

\* The entries of the queue, numbered in the order of their creation.
Entries == 1..MaxPending

\* usePermissions: whether the view is mounted, whether its handler is
\* subscribed to the client, the permissionQueue state, the
\* permissionQueueRef, and for every entry the responses its resolve
\* function was called with, in order.
NewHook ==
    [mounted |-> TRUE, subscribed |-> TRUE, queue |-> <<>>, ref |-> <<>>,
     created |-> 0, resolves |-> [e \in Entries |-> <<>>]]

\* entry.resolve(response), called times times.
resolveEntry(resolves, e, outcome, times) ==
    [resolves EXCEPT ![e] = @ \o [i \in 1..times |-> outcome]]

\* enqueuePermissionRequest(entry)
enqueuePermissionRequest(h, e) ==
    [h EXCEPT !.queue = Append(h.queue, e), !.ref = Append(h.queue, e)]

\* resolvePermissionRequest that takes the newest entry of the queue.
resolveNewest(h, outcome, times) ==
    IF h.queue = <<>> THEN h
    ELSE LET current == h.queue[Len(h.queue)]
             rest == SubSeq(h.queue, 1, Len(h.queue) - 1)
         IN  [h EXCEPT !.resolves = resolveEntry(@, current, outcome, times),
                       !.queue = rest, !.ref = rest]

\* resolvePermissionRequest(outcome): the updater of the queue state, which
\* React runs once, or twice under StrictMode in a development build.
resolvePermissionRequest(h, outcome, times) ==
    IF h.queue = <<>> THEN h
    ELSE LET current == h.queue[1]
             rest == Tail(h.queue)
         IN  [h EXCEPT !.resolves = resolveEntry(@, current, outcome, times),
                       !.queue = rest, !.ref = rest]

\* The cleanup of the subscription effect.
RECURSIVE cancelAll(_, _)
cancelAll(resolves, pending) ==
    IF pending = <<>> THEN resolves
    ELSE cancelAll(resolveEntry(resolves, Head(pending), "cancelled", 1), Tail(pending))

cleanup(h) ==
    [h EXCEPT !.subscribed = FALSE, !.resolves = cancelAll(@, h.ref), !.ref = <<>>]

\* The agent of a running process asks for a permission: requestPermission()
\* invokes the handler of the view, which makes an entry and enqueues it.
permissionRequested ==
    /\ hook.subscribed
    /\ ~callbacks["permission"]
    /\ \E p \in 1..Len(procs) : procs[p].status = "running"
    /\ hook.created < MaxPending
    /\ hook' = [enqueuePermissionRequest(hook, hook.created + 1)
                   EXCEPT !.created = hook.created + 1]
    /\ UNCHANGED <<client, procs, rpcs, calls, microtasks, obs, vaultBase, fanout,
                   resolved, sliced, requests, vault, attach>>

\* The user picks an option of the permission prompt, which shows the first
\* entry of the queue.
handlePermissionSelect ==
    /\ hook.mounted
    /\ hook.queue # <<>>
    /\ \E times \in 1..2 :
        hook' = resolvePermissionRequest(hook, "selected", times)
    /\ UNCHANGED <<client, procs, rpcs, calls, microtasks, obs, vaultBase, fanout,
                   resolved, sliced, requests, vault, attach>>

\* The user dismisses the permission prompt.
handlePermissionCancel ==
    /\ hook.mounted
    /\ hook.queue # <<>>
    /\ \E times \in 1..2 :
        hook' = resolvePermissionRequest(hook, "cancelled", times)
    /\ UNCHANGED <<client, procs, rpcs, calls, microtasks, obs, vaultBase, fanout,
                   resolved, sliced, requests, vault, attach>>

\* The view is closed: React unmounts the chat view and runs the cleanup.
unmount ==
    /\ hook.mounted
    /\ hook' = [cleanup(hook) EXCEPT !.mounted = FALSE]
    /\ UNCHANGED <<client, procs, rpcs, calls, microtasks, obs, vaultBase, fanout,
                   resolved, sliced, requests, vault, attach>>

\* ---- the attachments of the composer (useAttachments) -------------------------

\* The buildAttachment calls the model follows.
MaxBuilds == 3

\* The files of the vault that can be open or attached; getActiveFile()
\* returns null when no file is open.
NoFile == 0

Files == {1, 2}

\* What buildAttachment returns: the id it made, the path of the file and
\* the source it was given.
Attachment(id, path, source) == [id |-> id, path |-> path, source |-> source]

\* The hook after its first render, before its effects: the state
\* `attachments`, attachmentsRef, the two other refs, the file that is
\* active in the workspace, and the buildAttachment calls in flight.
NewAttachments ==
    [mounted |-> FALSE, active |-> NoFile, attachments |-> <<>>, ref |-> <<>>,
     suppressed |-> FALSE, requestId |-> 0, builds |-> {}, created |-> 0]

\* prev.filter((item) => item.source !== "auto")
withoutAuto(list) == SelectSeq(list, LAMBDA item : item.source # "auto")

\* list.some((item) => item.path === path)
hasPath(list, path) == \E i \in 1..Len(list) : list[i].path = path

\* list.some((item) => item.source !== "auto" && item.path === path)
hasManualFor(list, path) == hasPath(withoutAuto(list), path)

\* list.find((attachment) => attachment.source === "auto"), as the set of
\* what it found.
findAuto(list) ==
    LET autos == SelectSeq(list, LAMBDA item : item.source = "auto")
    IN  IF autos = <<>> THEN {} ELSE {Head(autos)}

\* The call of buildAttachment(file, source) by request requestId.
startBuild(a, file, source, requestId) ==
    [a EXCEPT !.created = @ + 1,
              !.builds = @ \cup {[id |-> a.created + 1, file |-> file,
                                  source |-> source, requestId |-> requestId]}]

\* ensureAutoAttachment() up to its await of buildAttachment.
ensureAutoAttachment(a) ==
    LET file == a.active
        existingAuto == findAuto(a.ref)
    IN  IF a.suppressed THEN a
        ELSE IF file = NoFile THEN [a EXCEPT !.attachments = withoutAuto(@)]
        ELSE IF \E e \in existingAuto : e.path = file THEN a
        ELSE IF hasManualFor(a.ref, file)
        THEN IF existingAuto # {} THEN [a EXCEPT !.attachments = withoutAuto(@)]
             ELSE a
        ELSE startBuild([a EXCEPT !.requestId = @ + 1], file, "auto", a.requestId + 1)

\* ensureAutoAttachment() after buildAttachment returned to build b.
autoAttachmentBuilt(a, b) ==
    IF a.requestId # b.requestId THEN a
    ELSE IF a.active = NoFile \/ a.active # b.file THEN a
    ELSE IF hasManualFor(a.ref, b.file) THEN a
    ELSE [a EXCEPT !.attachments =
             IF hasPath(withoutAuto(@), b.file) THEN withoutAuto(@)
             ELSE Append(withoutAuto(@), Attachment(b.id, b.file, "auto"))]

\* addAttachmentFromFile(file, "manual") up to its await of buildAttachment.
addAttachmentFromFile(a, file) ==
    IF hasPath(a.ref, file) THEN a ELSE startBuild(a, file, "manual", 0)

\* addAttachmentFromFile after buildAttachment returned to build b.
manualAttachmentBuilt(a, b) ==
    [a EXCEPT !.attachments =
        IF hasPath(@, b.file) THEN @
        ELSE Append(@, Attachment(b.id, b.file, "manual"))]

\* handleAttachmentRemove(id): the updater sets autoAttachSuppressedRef when
\* the attachment it removes has the source "auto".
handleAttachmentRemove(a, id) ==
    [a EXCEPT !.suppressed = @ \/ \E i \in 1..Len(a.attachments) :
                                    /\ a.attachments[i].id = id
                                    /\ a.attachments[i].source = "auto",
              !.attachments = SelectSeq(@, LAMBDA item : item.id # id)]

\* The effect of the chat view that calls ensureAutoAttachment() when the
\* view is mounted.
mountEffect ==
    /\ ~attach.mounted
    /\ attach.created < MaxBuilds
    /\ attach' = ensureAutoAttachment([attach EXCEPT !.mounted = TRUE])
    /\ UNCHANGED <<client, procs, rpcs, calls, microtasks, obs, vaultBase, fanout,
                   resolved, sliced, requests, vault, hook>>

\* The workspace opens file f (or closes the last one) and fires
\* "file-open", whose listener calls ensureAutoAttachment().
fileOpen ==
    \E f \in Files \cup {NoFile} :
        /\ attach.mounted
        /\ attach.created < MaxBuilds
        /\ attach' = ensureAutoAttachment([attach EXCEPT !.active = f])
        /\ UNCHANGED <<client, procs, rpcs, calls, microtasks, obs, vaultBase, fanout,
                       resolved, sliced, requests, vault, hook>>

\* The user picks a file in the modal of the Attach button, or drops one.
attachFile ==
    \E f \in Files :
        /\ attach.mounted
        /\ attach.created < MaxBuilds
        /\ attach' = addAttachmentFromFile(attach, f)
        /\ UNCHANGED <<client, procs, rpcs, calls, microtasks, obs, vaultBase, fanout,
                       resolved, sliced, requests, vault, hook>>

\* A buildAttachment call returns and its caller resumes.
attachmentBuilt ==
    \E b \in attach.builds :
        LET a == [attach EXCEPT !.builds = @ \ {b}]
        IN  /\ attach' = IF b.source = "auto" THEN autoAttachmentBuilt(a, b)
                         ELSE manualAttachmentBuilt(a, b)
            /\ UNCHANGED <<client, procs, rpcs, calls, microtasks, obs, vaultBase,
                           fanout, resolved, sliced, requests, vault, hook>>

\* The user removes one of the attachments the composer shows.
removeAttachment ==
    \E i \in 1..Len(attach.attachments) :
        /\ attach' = handleAttachmentRemove(attach, attach.attachments[i].id)
        /\ UNCHANGED <<client, procs, rpcs, calls, microtasks, obs, vaultBase, fanout,
                       resolved, sliced, requests, vault, hook>>

\* The effect that copies the rendered attachments to attachmentsRef.
attachmentsEffect ==
    /\ attach.ref # attach.attachments
    /\ attach' = [attach EXCEPT !.ref = attach.attachments]
    /\ UNCHANGED <<client, procs, rpcs, calls, microtasks, obs, vaultBase, fanout,
                   resolved, sliced, requests, vault, hook>>

\* ---- initial states and specifications ---------------------------------------

\* The vaults the file handlers start from.
EmptyVault(base) == [base |-> base, emptyIsRoot |-> FALSE, entries |-> {}]

InitialEntries ==
    {{},
     {File(<<"a">>, <<"a">>)},
     {Folder(<<"a">>)},
     {Folder(<<"a">>), File(<<"a", "/", "a">>, <<"a", "\n", "b">>)},
     {Folder(<<"a">>), Folder(<<"a", "/", "a">>)}}

NoResolution == [path |-> <<>>, out |-> NotRun]

NoSlice == [content |-> <<>>, line |-> Absent, limit |-> Absent, out |-> NotRun]

\* No file request has been made, and the chat view is mounted.
InitCallee ==
    /\ resolved = NoResolution
    /\ sliced = NoSlice
    /\ requests = [r \in Requests |-> NoRequest]
    /\ vault = EmptyVault(IF vaultBase THEN DesktopBase ELSE NoBase)
    /\ hook = NewHook
    /\ attach = NewAttachments

InitClient ==
    /\ client = NewClient
    /\ procs = <<>>
    /\ rpcs = [r \in RpcIds |-> Collected]
    /\ calls = [c \in Slots |-> Idle]
    /\ microtasks = <<>>
    /\ obs = NoObs

InitRegistries ==
    /\ handlers = [k \in Kinds |-> <<>>]
    /\ deliveries = [n \in Notes |-> NoDelivery]
    /\ invoked = <<>>

\* A client constructed without callbacks, on any platform.
Init ==
    /\ InitClient
    /\ InitRegistries
    /\ vaultBase \in BOOLEAN
    /\ InitCallee
    /\ callbacks = [k \in Kinds |-> FALSE]

Next ==
    \/ initialize
    \/ ensureSession
    \/ sendPrompt
    \/ disconnect
    \/ RunMicrotask
    \/ Resolve
    \/ Reject
    \/ Exit
    \/ Error
    \/ Close
    \/ TimerFires

Spec == Init /\ [][Next]_vars

\* The client with cancelPrompt() among the calls of its user.
NextCancel == Next \/ cancelPrompt

SpecCancel == Init /\ [][NextCancel]_vars

\* A client constructed with or without the callback of registry k, on
\* the desktop.
InitFanout(k) ==
    /\ InitClient
    /\ InitRegistries
    /\ vaultBase = TRUE
    /\ InitCallee
    /\ callbacks \in [Kinds -> BOOLEAN]
    /\ \A other \in Kinds \ {k} : ~callbacks[other]

\* The fan-out of session-update notifications to the subscribers.
NextUpdates ==
    \/ subscribeSessionUpdates
    \/ unsubscribeSessionUpdates
    \/ sessionUpdate
    \/ HandlerSettles
    \/ CallbackSettles

SpecUpdates == InitFanout("update") /\ [][NextUpdates]_vars

\* The delivery of permission requests to the subscribers.
NextPermission ==
    \/ subscribePermissionRequests
    \/ unsubscribePermissionRequests
    \/ requestPermission
    \/ HandlerSettles
    \/ CallbackSettles

SpecPermission == InitFanout("permission") /\ [][NextPermission]_vars

\* resolveVaultPath on every candidate path, for every kind of vault.
InitPaths ==
    /\ InitClient
    /\ InitRegistries
    /\ callbacks = [k \in Kinds |-> FALSE]
    /\ vault \in {EmptyVault(base) : base \in Bases}
    /\ vaultBase = (vault.base # NoBase)
    /\ resolved \in {[NoResolution EXCEPT !.path = path] : path \in Paths}
    /\ sliced = NoSlice
    /\ requests = [r \in Requests |-> NoRequest]
    /\ hook = NewHook
    /\ attach = NewAttachments

NextPaths == resolve

SpecPaths == InitPaths /\ [][NextPaths]_vars

\* sliceTextByLine on every text, line and limit.
InitSlice ==
    /\ InitClient
    /\ InitRegistries
    /\ callbacks = [k \in Kinds |-> FALSE]
    /\ vaultBase = TRUE
    /\ vault = EmptyVault(DesktopBase)
    /\ resolved = NoResolution
    /\ sliced \in [content : Texts, line : OptionalNumbers, limit : OptionalNumbers,
                    out : {NotRun}]
    /\ requests = [r \in Requests |-> NoRequest]
    /\ hook = NewHook
    /\ attach = NewAttachments

NextSlice == slice

SpecSlice == InitSlice /\ [][NextSlice]_vars

\* The file handlers on a desktop vault.
InitFiles ==
    /\ InitClient
    /\ InitRegistries
    /\ callbacks = [k \in Kinds |-> FALSE]
    /\ vaultBase = TRUE
    /\ vault \in [base : {DesktopBase}, emptyIsRoot : BOOLEAN, entries : InitialEntries]
    /\ resolved = NoResolution
    /\ sliced = NoSlice
    /\ requests = [r \in Requests |-> NoRequest]
    /\ hook = NewHook
    /\ attach = NewAttachments

NextFiles ==
    \/ writeTextFile
    \/ readTextFile
    \/ parentEnsured
    \/ fileWritten
    \/ fileRead

SpecFiles == InitFiles /\ [][NextFiles]_vars

\* The client, its agent processes and the permission queue of the view.
NextQueue ==
    \/ initialize
    \/ disconnect
    \/ Exit
    \/ Error
    \/ permissionRequested
    \/ handlePermissionSelect
    \/ handlePermissionCancel
    \/ unmount

SpecQueue == Init /\ [][NextQueue]_vars

\* The attachments of the composer, from the first render of the chat view
\* with some file, or none, open in the workspace.
InitAttachments ==
    /\ InitClient
    /\ InitRegistries
    /\ callbacks = [k \in Kinds |-> FALSE]
    /\ vaultBase = TRUE
    /\ resolved = NoResolution
    /\ sliced = NoSlice
    /\ requests = [r \in Requests |-> NoRequest]
    /\ vault = EmptyVault(DesktopBase)
    /\ hook = NewHook
    /\ attach \in {[NewAttachments EXCEPT !.active = f] : f \in Files \cup {NoFile}}

NextAttachments ==
    \/ mountEffect
    \/ fileOpen
    \/ attachFile
    \/ attachmentBuilt
    \/ removeAttachment
    \/ attachmentsEffect

SpecAttachments == InitAttachments /\ [][NextAttachments]_vars

\* ---- steps and facts the properties speak about ----------------------------

Procs == 1..Len(procs)

\* The step handles the 'exit' or 'error' event of p.
ProcessEvent(p) == obs'.event = p

\* The step issues RPC r.
Issued(r) == rpcs[r] = Collected /\ rpcs'[r] # Collected

\* The step is the rejection of the initialize RPC r.
InitializeRejected(r) == rpcs[r].kind = "initialize" /\ Settle(r, "rejected")

\* The step is a call of initialize(), by the user or by ensureSession().
InitializeCalled == initialize \/ ensureSession \/ sendPrompt \/ cancelPrompt

\* The process that issued session sid.
IssuerOf(sid) == rpcs[sid].conn

\* The handshake of the owned process is done.
Initialized(cl, rs) ==
    /\ cl.agentProcess # Null
    /\ cl.initializationPromise # Null
    /\ rs[cl.initializationPromise].state = "fulfilled"

\* ---- C1 ----
\* C1: of two ensureSession() calls that overlap, only one issues a
\* newSession RPC: no call issues one on a connection while another call,
\* still suspended in ensureSession(), has issued one on that connection.
C1_OneNewSession ==
    [][\A c, d \in Slots :
        (/\ c # d
         /\ calls[d].pc = "awaitSession"
         /\ calls[d].issued # Null
         /\ calls[c].issued = Null
         /\ calls'[c].issued # Null)
        => rpcs'[calls'[c].issued].conn # rpcs[calls[d].issued].conn]_vars

\* ---- C2 ----
\* C2: an ensureSession() call never returns a session id issued by a
\* process that had emitted 'exit', while the client owned it, before the
\* call started.
C2_NoDeadSession ==
    [][obs'.returned # Null
        => IssuerOf(obs'.returned) \notin calls[Head(microtasks)].deadAtStart]_vars

\* ---- C3 ----
\* C3: no initialize RPC is issued on a connection whose initialize
\* handshake is in flight or has succeeded.
C3_OneHandshake ==
    [][\A r, q \in RpcIds :
        (Issued(r) /\ rpcs'[r].kind = "initialize")
        => ~(/\ rpcs[q].kind = "initialize"
             /\ rpcs[q].conn = rpcs'[r].conn
             /\ rpcs[q].state \in {"pending", "fulfilled"})]_vars

\* ---- C4 ----
\* C4: the 'exit' or 'error' event of a process p, handled while the client
\* owns another process, changes none of the five fields.
C4_StaleEventIgnored ==
    [][\A p \in Procs :
        (ProcessEvent(p) /\ client.agentProcess \notin {Null, p})
        => client' = client]_vars

\* The event of process p has just been handled while the client owns a
\* newer process with its connection, handshake and session in place.
C4_Witness ==
    \E p \in Procs :
        /\ obs.event = p
        /\ client.agentProcess \notin {Null, p}
        /\ client.connection = client.agentProcess
        /\ Initialized(client, rpcs)
        /\ client.sessionPromise # Null
        /\ client.sessionId # Null

\* ---- C5 ----
\* C5: the 'exit' or 'error' event of the owned process clears the five
\* fields in the step that handles it, and a call of initialize() with the
\* fields cleared spawns a process.
C5_OwnedEventClears ==
    [][/\ \A p \in Procs :
            (ProcessEvent(p) /\ client.agentProcess = p) => client' = NewClient
       /\ (InitializeCalled /\ client = NewClient)
            => /\ Len(procs') = Len(procs) + 1
               /\ client'.agentProcess = Len(procs')]_vars

\* The owned process has just emitted 'exit' under a call suspended on a
\* newSession RPC of its connection, and the five fields are null.
C5_Witness ==
    \E p \in Procs, c \in Slots :
        /\ obs.event = p
        /\ procs[p].diedOwned
        /\ calls[c].pc = "awaitSession"
        /\ rpcs[calls[c].awaits].conn = p
        /\ client = NewClient

\* ---- C6 ----
\* C6: a disconnect() step leaves the five fields null.
C6_DisconnectClears == [][disconnect => client' = NewClient]_vars

\* disconnect() has just signalled a process that is still running, under a
\* call suspended on a newSession RPC of its connection.
C6_Witness ==
    \E p \in Procs, c \in Slots :
        /\ obs.signals # <<>>
        /\ obs.signals[Len(obs.signals)] = <<p, "SIGTERM">>
        /\ procs[p].status = "running"
        /\ calls[c].pc = "awaitSession"
        /\ rpcs[calls[c].awaits].conn = p
        /\ client = NewClient

\* ---- C7 ----
\* C7: disconnect() of the owned process p ends its stdin and then sends it
\* SIGTERM; when the grace timer of that disconnect() fires, SIGKILL is sent
\* to p; and no timer is pending for a process that has closed.
C7_GracefulThenForceful ==
    [][\A p \in Procs :
        /\ (disconnect /\ client.agentProcess = p)
            => obs'.signals \in {<<<<p, "end">>, <<p, "SIGTERM">>>>,
                                 <<<<p, "SIGTERM">>>>}
        /\ (procs[p].timer /\ ~procs'[p].timer /\ procs'[p].status # "closed")
            => obs'.signals = <<<<p, "SIGKILL">>>>
        /\ procs'[p].status = "closed" => ~procs'[p].timer]_vars

\* ---- C8 ----
\* C8: at most one process is spawned and has not exited.
C8_OneLiveProcess ==
    Cardinality({p \in Procs : procs[p].status = "running"}) <= 1

\* ---- C9 ----
\* C9: while the handshake of the owned process has succeeded, a step that
\* does not tear the process down keeps the memoized promise.
C9_MemoRetained ==
    [][(Initialized(client, rpcs) /\ client'.agentProcess = client.agentProcess)
        => client'.initializationPromise = client.initializationPromise]_vars

\* ---- C10 ----
\* C10: the rejection of an initialize RPC changes no field but
\* initializationPromise, which it clears, and sends no signal; a call of
\* initialize() on a client with a connection and no memoized promise
\* issues an initialize RPC on that connection and spawns nothing.
C10_RejectionClearsOnlyPromise ==
    [][/\ \A r \in RpcIds :
            InitializeRejected(r)
            => /\ client' = [client EXCEPT !.initializationPromise = Null]
               /\ procs' = procs
               /\ obs'.signals = <<>>
       /\ (/\ InitializeCalled
           /\ client.connection # Null
           /\ client.initializationPromise = Null)
            => /\ procs' = procs
               /\ client'.initializationPromise # Null
               /\ Issued(client'.initializationPromise)
               /\ rpcs'[client'.initializationPromise].kind = "initialize"
               /\ rpcs'[client'.initializationPromise].conn = client.connection]_vars

\* The initialize RPC of the owned, running process has been rejected: the
\* process and the connection are in place and nothing is memoized.
C10_Witness ==
    /\ client.agentProcess # Null
    /\ client.connection = client.agentProcess
    /\ procs[client.agentProcess].status = "running"
    /\ client.initializationPromise = Null
    /\ obs.signals = <<>>

\* ---- C11 ----
\* C11: the initialize() attempt on a process that reports a spawn error
\* fails: when the 'error' event of the process is handled, the promise of
\* an initialize RPC still pending on its connection is not left behind
\* unsettled.
C11_SpawnErrorFailsAttempt ==
    [][\A r \in RpcIds :
        (/\ rpcs[r].kind = "initialize"
         /\ rpcs[r].state = "pending"
         /\ procs[rpcs[r].conn].status = "spawnfailed"
         /\ ProcessEvent(rpcs[r].conn))
        => rpcs'[r] # Collected]_vars

\* The step runs the continuation of call c.
Resumes(c) == microtasks # <<>> /\ Head(microtasks) = c /\ RunMicrotask

\* ---- C12 ----
\* C12: the continuation of an ensureSession() call whose newSession
\* promise was rejected clears sessionPromise and changes no other field
\* (sessionId keeps its value), returns no session id and issues no RPC;
\* and an ensureSession() call that resumes after a successful initialize()
\* with a connection, a vault path, no session id and no memoized promise
\* issues a newSession RPC on the connection and memoizes it.
C12_RejectionClearsSessionPromise ==
    [][\A c \in Slots :
        /\ (/\ Resumes(c)
            /\ calls[c].pc = "awaitSession"
            /\ rpcs[calls[c].awaits].state = "rejected")
            => /\ client' = [client EXCEPT !.sessionPromise = Null]
               /\ obs'.returned = Null
               /\ \A r \in RpcIds : ~Issued(r)
        /\ (/\ Resumes(c)
            /\ calls[c].pc = "awaitInit"
            /\ vaultBase
            /\ client.connection # Null
            /\ client.sessionId = Null
            /\ client.sessionPromise = Null)
            => /\ client'.sessionPromise # Null
               /\ Issued(client'.sessionPromise)
               /\ rpcs'[client'.sessionPromise].kind = "newSession"
               /\ rpcs'[client'.sessionPromise].conn = client.connection
               /\ client'.sessionId = Null]_vars

\* The catch block of one ensureSession() call has cleared sessionPromise
\* on the owned connection while a second call that awaited the same
\* rejected newSession promise has not resumed yet.
C12_Witness ==
    \E c \in Slots :
        /\ calls[c].pc = "awaitSession"
        /\ rpcs[calls[c].awaits].state = "rejected"
        /\ client.connection = rpcs[calls[c].awaits].conn
        /\ Initialized(client, rpcs)
        /\ client.sessionPromise = Null

\* ---- C13 ----
\* C13: no newSession RPC succeeds on a connection on which another one has
\* succeeded, and a step that leaves a session id in the sessionId field
\* does not replace a session id that was there.
C13_OneSessionPerProcess ==
    [][/\ \A r, q \in RpcIds :
            (/\ r # q
             /\ rpcs[q].kind = "newSession" /\ rpcs[q].state = "fulfilled"
             /\ rpcs[r].kind = "newSession" /\ rpcs[r].state = "pending"
             /\ rpcs[r].conn = rpcs[q].conn)
            => rpcs'[r].state # "fulfilled"
       /\ (client.sessionId # Null /\ client'.sessionId # Null)
            => client'.sessionId = client.sessionId]_vars

\* ---- C14 ----
\* C14: a disconnect() step on a client that owns no process sends no
\* signal, sets no timer (no process record changes), leaves the five fields
\* null and touches no call; on a client whose five fields are already null,
\* as after a disconnect(), it changes nothing at all.  (disconnect() has no
\* failing branch: the promise it returns is resolved.)
C14_DisconnectWithoutProcess ==
    [][(disconnect /\ client.agentProcess = Null)
        => /\ obs'.signals = <<>>
           /\ procs' = procs
           /\ client' = NewClient
           /\ calls' = calls /\ microtasks' = microtasks
           /\ client = NewClient => rpcs' = rpcs]_vars

\* disconnect() has just been called on a client that owned no process,
\* while the grace timer of an earlier disconnect() is still pending.
C14_Witness ==
    /\ obs.disconnected
    /\ obs.signals = <<>>
    /\ client = NewClient
    /\ \E p \in Procs : procs[p].timer /\ procs[p].status = "running"

\* ---- C15 ----
\* C15: a step that issues a prompt RPC issues it on the connection of the
\* owned process, whose initialize handshake has succeeded, and the session
\* id the call carries is that of a newSession RPC that succeeded on that
\* connection.
C15_PromptOnReadySession ==
    [][\A r \in RpcIds :
        (Issued(r) /\ rpcs'[r].kind = "prompt")
        => LET sid == calls[Head(microtasks)].sessionId
           IN  /\ rpcs'[r].conn = client.agentProcess
               /\ Initialized(client, rpcs)
               /\ rpcs[sid].kind = "newSession"
               /\ rpcs[sid].state = "fulfilled"
               /\ rpcs[sid].conn = rpcs'[r].conn]_vars

\* ---- C16 ----
\* C16: no step of a cancelPrompt() call changes a sendPrompt() call in
\* flight or the promise of its prompt RPC; a sendPrompt() call suspended
\* on its prompt RPC leaves that state only in the step that settles this
\* RPC (or is left suspended for ever when the stdout of the process is
\* gone); and cancelPrompt(), once ensureSession() has returned, completes
\* in its next step whatever the state of the prompt.
C16_CancelIsAdvisory ==
    [][\A c \in Slots :
        /\ calls[c].op = "sendPrompt"
            => /\ \A d \in Slots \ {c} :
                    (\/ calls[d].op = "cancelPrompt" /\ Resumes(d)
                     \/ calls[d].op = "none" /\ calls'[d].op = "cancelPrompt")
                    => /\ calls'[c] = calls[c]
                       /\ calls[c].pc = "awaitPrompt"
                            => rpcs'[calls[c].awaits] = rpcs[calls[c].awaits]
               /\ (calls[c].pc = "awaitPrompt" /\ calls'[c] # calls[c])
                    => /\ rpcs[calls[c].awaits].state = "pending"
                       /\ \/ Settle(calls[c].awaits, "fulfilled")
                          \/ Settle(calls[c].awaits, "rejected")
                          \/ StdoutGone(procs'[rpcs[calls[c].awaits].conn])
        /\ (/\ calls[c].op = "cancelPrompt"
            /\ calls[c].pc = "gotSession"
            /\ Resumes(c))
            => calls'[c] = Idle]_vars

\* cancelPrompt() has just sent session/cancel on the connection on which
\* a sendPrompt() call is still suspended on its pending prompt RPC.
C16_Witness ==
    \E c \in Slots :
        /\ obs.cancelled # Null
        /\ calls[c].op = "sendPrompt"
        /\ calls[c].pc = "awaitPrompt"
        /\ rpcs[calls[c].awaits].state = "pending"
        /\ rpcs[calls[c].awaits].conn = obs.cancelled

\* ---- facts about the fan-out --------------------------------------------------

\* The positions in the log of the invocations made for message n.
InvocationsFor(log, n) == {a \in 1..Len(log) : log[a].note = n}

\* In the log, handler h has been invoked with message n.
Invoked(log, h, n) == \E a \in InvocationsFor(log, n) : log[a].who = h

\* Delivery d is past its loop over the registry.
LoopDone(d) == d.pc \in {"callback", "done", "cancelled", "failed"}

\* The step is the one in which delivery n leaves its loop.
LeavesLoop(n) ==
    deliveries[n].pc \in {"idle", "handler"} /\ LoopDone(deliveries'[n])

C18_NotificationsInOrder ==
    \A a, b \in 1..Len(invoked) :
        (/\ a < b
         /\ invoked[a].who \in Handlers
         /\ invoked[a].who = invoked[b].who)
        => invoked[a].note <= invoked[b].note

\* ---- C19 ----
\* C19: when a delivery that iterates a registry leaves its loop after a
\* subscriber registered at its start has been removed, it has not failed
\* and every subscriber that was registered at its start and still is has
\* been invoked with its message.
C19_RemovalDuringDelivery ==
    [][\A n \in Notes :
        LET d == deliveries'[n]
        IN  (/\ LeavesLoop(n)
             /\ d.kind = "permission" => ~callbacks["permission"]
             /\ d.registered \ Members(handlers'[d.kind]) # {})
            => /\ d.pc # "failed"
               /\ \A h \in d.registered \cap Members(handlers'[d.kind]) :
                    Invoked(invoked', h, n)]_vars

\* ---- C20 ----
\* C20: a permission request received by a client without the constructor's
\* handler has been handed to every subscriber that was registered when it
\* arrived, so that any of them can answer first.
C20_PermissionBroadcast ==
    \A n \in Notes :
        (/\ deliveries[n].kind = "permission"
         /\ ~callbacks["permission"])
        => \A h \in deliveries[n].registered : Invoked(invoked, h, n)

TornDown == client.agentProcess # Null /\ client'.agentProcess = Null

\* Entry e has been made and its resolve function has not been called.
Pending(h, e) == e <= h.created /\ h.resolves[e] = <<>>

\* ---- C22 ----
\* C22: after a step that tears the connection down, the permission queue
\* is empty and every entry that was pending has been resolved with the
\* outcome cancelled.
C22_TeardownCancelsPending ==
    [][TornDown
        => /\ hook'.queue = <<>>
           /\ \A e \in Entries :
                Pending(hook, e) => hook'.resolves[e] = <<"cancelled">>]_vars

\* The segments of a candidate path, whichever slash separates them.
Segments(path) == split(normalizeSlashes(path))

\* ---- C23 ----
\* C23: what resolveVaultPath returns has no ".." segment, and a candidate
\* path with a ".." segment, absolute or relative, with or without a known
\* base path, is rejected with invalid-params.
C23_NoTraversal ==
    resolved.out # NotRun
    => /\ resolved.out.error = "none"
            => ~includes(split(resolved.out.value), DotDot)
       /\ includes(Segments(resolved.path), DotDot)
            => resolved.out.error = "invalidParams"

\* An absolute candidate below the base path was rejected for a ".."
\* segment.
C23_Witness ==
    /\ vault.base # NoBase
    /\ startsWith(normalizeSlashes(resolved.path),
                  stripTrailing(normalizeSlashes(vault.base)) \o <<"/">>)
    /\ resolved.out.message = "Path traversal is not allowed"

\* The candidate path is the base path or a path below it.
UnderBase(path, base) ==
    LET normalizedBase == stripTrailing(normalizeSlashes(base))
    IN  /\ base # NoBase
        /\ \/ normalizeSlashes(path) = normalizedBase
           \/ startsWith(normalizeSlashes(path), normalizedBase \o <<"/">>)

\* ---- C24 ----
\* C24: an absolute candidate path that is neither the base path of the
\* vault nor below it, the vault having a known base path or not, is
\* rejected with invalid-params: resolveVaultPath returns no path for it.
C24_AbsoluteOutsideRejected ==
    (/\ resolved.out # NotRun
     /\ isAbsolutePath(normalizeSlashes(resolved.path))
     /\ ~UnderBase(resolved.path, vault.base))
    => resolved.out.error = "invalidParams"

\* The candidate path names the root of the vault: it is the base path, with
\* or without slashes at its end.
PointsToRoot(path, base) ==
    /\ base # NoBase
    /\ stripTrailing(normalizeSlashes(path)) = stripTrailing(normalizeSlashes(base))

\* ---- C25 ----
\* C25: the base path of the vault resolves to the empty string, and no
\* step of a readTextFile or writeTextFile call whose path names the root
\* of the vault changes the vault, and the call ends with invalid-params.
C25_VaultRootRejected ==
    [][/\ resolveVaultPath(vault.base, vault.base) = Returns(<<>>)
       /\ \A r \in Requests :
            (/\ requests'[r] # requests[r]
             /\ PointsToRoot(requests'[r].path, vault.base))
            => /\ vault' = vault
               /\ requests'[r].pc = "done"
                    => requests'[r].out.error = "invalidParams"]_vars

WritesTo(rs, path) == {w \in Requests : rs[w].rank > 0 /\ rs[w].vaultPath = path}

C28_FileAsFolderRejected ==
    [][\A r \in Requests :
        (/\ requests'[r] # requests[r]
         /\ requests'[r].method = "write"
         /\ \E a \in ancestors(requests'[r].vaultPath) :
                getAbstractFileByPath(vault, a).kind = "file")
        => /\ vault' = vault
           /\ requests'[r].pc = "done"
                => requests'[r].out.error = "invalidParams"]_vars

\* The step is a select or a cancel of the user.
Answered == handlePermissionSelect \/ handlePermissionCancel

\* The entries whose resolve function the step calls.
ResolvedBy == {e \in Entries : hook'.resolves[e] # hook.resolves[e]}

\* ---- C29 ----
\* C29: a select or a cancel resolves one entry, the oldest of the pending
\* ones, and takes it off the queue; and after every step every entry older
\* than a resolved one has been resolved.
C29_OldestFirst ==
    [][/\ Answered
            => \E e \in Entries :
                /\ Pending(hook, e)
                /\ \A f \in 1..(e - 1) : ~Pending(hook, f)
                /\ ResolvedBy = {e}
                /\ hook'.queue = Tail(hook.queue)
                /\ hook.queue[1] = e
       /\ \A e, f \in Entries :
            (e < f /\ hook'.resolves[f] # <<>>) => hook'.resolves[e] # <<>>]_vars

\* Of three requests in the queue, the user answered the first and
\* dismissed the second; the third is pending.
C29_Witness ==
    /\ hook.mounted
    /\ hook.resolves[1] # <<>> /\ hook.resolves[1][1] = "selected"
    /\ hook.resolves[2] # <<>> /\ hook.resolves[2][1] = "cancelled"
    /\ Pending(hook, 3)
    /\ hook.queue = <<3>>

\* ---- C30 ----
\* C30: the resolve function of no entry has been called twice, and an entry
\* that has been resolved is not in the queue of a mounted view.
C30_ResolvedOnce ==
    \A e \in Entries :
        /\ Len(hook.resolves[e]) <= 1
        /\ (hook.mounted /\ hook.resolves[e] # <<>>)
                => \A i \in 1..Len(hook.queue) : hook.queue[i] # e

\* ---- C31 ----
\* C31: when the grace timer of the disconnect() of process p fires, no
\* signal is sent to a process other than p.
C31_KillOnlyDisconnected ==
    [][\A p \in Procs :
        (procs[p].timer /\ ~procs'[p].timer /\ procs'[p].status # "closed")
        => \A i \in 1..Len(obs'.signals) : obs'.signals[i][1] = p]_vars

\* ---- C32 ----
\* C32: a step that issues a newSession RPC issues it on a connection on
\* which an initialize RPC has succeeded.
C32_SessionAfterHandshake ==
    [][\A r \in RpcIds :
        (Issued(r) /\ rpcs'[r].kind = "newSession")
        => \E i \in RpcIds :
            /\ rpcs[i].kind = "initialize"
            /\ rpcs[i].conn = rpcs'[r].conn
            /\ rpcs[i].state = "fulfilled"]_vars

\* ---- C33 ----
\* C33: while the only process spawned so far is one that disconnect() has
\* released and whose grace timer is pending, so that disconnect() has
\* returned and initialize() has not been called since, no step that spawns
\* nothing leaves the client with a session id.
C33_NoSessionAfterDisconnect ==
    [][(/\ Len(procs) = 1
        /\ procs[1].timer
        /\ client.agentProcess = Null
        /\ Len(procs') = 1)
       => client'.sessionId = Null]_vars

\* ---- C34 ----
\* C34: in every reachable state a connection implies a process handle, and
\* an initialization promise or a session promise implies a connection.
C34_FieldsNested ==
    /\ client.connection # Null => client.agentProcess # Null
    /\ client.initializationPromise # Null => client.connection # Null
    /\ client.sessionPromise # Null => client.connection # Null

\* All of the fields are set on the second process the client has spawned.
C34_Witness ==
    /\ Len(procs) = 2
    /\ client.agentProcess = 2
    /\ client.connection # Null
    /\ client.initializationPromise # Null
    /\ client.sessionPromise # Null

\* ---- C35 ----
\* C35: no step of a cancelPrompt() call, neither the call itself nor one of
\* its continuations, taken while the client has no session id, spawns a
\* process or issues an RPC (initialize or newSession).
C35_CancelWithoutSessionIsInert ==
    [][\A c \in Slots :
        (/\ client.sessionId = Null
         /\ \/ calls[c].op = "none" /\ calls'[c].op = "cancelPrompt"
            \/ calls[c].op = "cancelPrompt" /\ Resumes(c))
        => /\ Len(procs') = Len(procs)
           /\ \A r \in RpcIds : ~Issued(r)]_vars

\* ---- C36 ----
\* C36: a writeTextFile call that found its target missing, or the folder of
\* its target missing, and resumes after an overlapping writeTextFile call
\* has created that file, or that folder, does not end in an error.
C36_OverlappingWritesSucceed ==
    [][\A r \in Requests :
        LET q == requests[r]
        IN  (/\ q.method = "write"
             /\ requests'[r] # q
             /\ \/ /\ q.pc = "file"
                   /\ q.op = "create"
                   /\ getAbstractFileByPath(vault, q.vaultPath).kind = "file"
                \/ /\ q.pc = "parent"
                   /\ q.op = "createFolder"
                   /\ getAbstractFileByPath(vault, folderOf(q.vaultPath)).kind = "folder")
            => requests'[r].out.error \in {"none", "pending"}]_vars

\* ---- C37 ----
\* C37: after every step, no handler has been invoked more than once with
\* the same session-update notification, whatever was subscribed or
\* unsubscribed while the notification was being delivered.
C37_HandlerOncePerNotification ==
    \A n \in Notes, h \in Handlers :
        Cardinality({a \in InvocationsFor(invoked, n) : invoked[a].who = h}) <= 1

\* ---- C38 ----
\* C38: once the user has removed an attachment with the source "auto"
\* (handleAttachmentRemove has set autoAttachSuppressedRef), no step adds an
\* attachment with the source "auto" to the attachments of the composer.
C38_NoAutoAfterRemoval ==
    [][attach.suppressed
       => \A i \in 1..Len(attach'.attachments) :
            attach'.attachments[i].source = "auto"
            => \E j \in 1..Len(attach.attachments) :
                 attach.attachments[j] = attach'.attachments[i]]_vars

====
